---- MODULE Spec2Model ----
(***************************************************************************)
(* Model of src/main.py: a Streamlit script that loads five pickled        *)
(* artifacts through a cached loader and, on every script rerun, runs the  *)
(* sentiment pipeline preprocess -> vectorize -> ensemble -> (optional)    *)
(* base models, rendering the result on the page.                          *)
(*                                                                         *)
(* Text is a sequence of one-character strings.  Probabilities are         *)
(* integers counting 1/ProbUnit.  The pickled objects are opaque: their    *)
(* outputs are nondeterministic choices, and each of their calls may       *)
(* raise.                                                                  *)
(***************************************************************************)
EXTENDS Integers, Sequences, FiniteSets, TLC

(* ---------------------------- bounds ----------------------------------- *)

MaxLen == 3

MaxInputLen == 3

MaxLoads == 2

(* ---------------------------- characters ------------------------------- *)

Alphabet == {"a", "b", "A", "B", "7", "!", " ", "\t", "é"}

InputChars == {"a", "B", "!", " ", "\t"}

IsAsciiLetter(c) == c \in {"a", "b", "A", "B"}

IsLowerAscii(c) == c \in {"a", "b"}

IsSpace(c) == c \in {" ", "\t"}

LowerChar(c) == IF c = "A" THEN "a" ELSE IF c = "B" THEN "b" ELSE c

SeqsUpTo(S, n) == UNION {[1..k -> S] : k \in 0..n}

(* ---------------------------- preprocess_text -------------------------- *)

RECURSIVE DropNonLetters(_)
DropNonLetters(text) ==
    IF text = <<>> THEN <<>>
    ELSE IF IsAsciiLetter(Head(text)) THEN text
    ELSE DropNonLetters(Tail(text))

RECURSIVE SubNonLetters(_)
SubNonLetters(text) ==
    IF text = <<>> THEN <<>>
    ELSE IF IsAsciiLetter(Head(text))
         THEN <<Head(text)>> \o SubNonLetters(Tail(text))
         ELSE <<" ">> \o SubNonLetters(DropNonLetters(Tail(text)))

LowerMissing(text) == text

SwapCase(text) ==
    [i \in 1..Len(text) |->
        IF text[i] = "A" THEN "a" ELSE IF text[i] = "B" THEN "b"
        ELSE IF text[i] = "a" THEN "A" ELSE IF text[i] = "b" THEN "B"
        ELSE text[i]]

Lower(text) == [i \in 1..Len(text) |-> LowerChar(text[i])]

RECURSIVE LStrip(_)
LStrip(text) ==
    IF text = <<>> THEN <<>>
    ELSE IF IsSpace(Head(text)) THEN LStrip(Tail(text))
    ELSE text

RECURSIVE RStrip(_)
RStrip(text) ==
    IF text = <<>> THEN <<>>
    ELSE IF IsSpace(text[Len(text)]) THEN RStrip(SubSeq(text, 1, Len(text) - 1))
    ELSE text

StripNothing(text) == text

Strip(text) == RStrip(LStrip(text))

RECURSIVE DropSpaces(_)
DropSpaces(text) ==
    IF text = <<>> THEN <<>>
    ELSE IF IsSpace(Head(text)) THEN DropSpaces(Tail(text))
    ELSE text

RECURSIVE SubWhitespace(_)
SubWhitespace(text) ==
    IF text = <<>> THEN <<>>
    ELSE IF IsSpace(Head(text))
         THEN <<" ">> \o SubWhitespace(DropSpaces(Tail(text)))
         ELSE <<Head(text)>> \o SubWhitespace(Tail(text))

normalize(text) == SubWhitespace(Strip(Lower(SubNonLetters(text))))

(* ---------------------------- linguistic tools ------------------------- *)

RECURSIVE Words(_)
Words(text) ==
    IF text = <<>> THEN <<>>
    ELSE LET n == CHOOSE k \in 0..Len(text) :
                     /\ \A i \in 1..k : text[i] # " "
                     /\ (k = Len(text) \/ text[k + 1] = " ")
         IN  IF n = Len(text) THEN <<text>>
             ELSE <<SubSeq(text, 1, n)>> \o Words(SubSeq(text, n + 2, Len(text)))

RECURSIVE Join(_)
Join(ws) ==
    IF ws = <<>> THEN <<>>
    ELSE IF Len(ws) = 1 THEN ws[1]
    ELSE ws[1] \o <<" ">> \o Join(Tail(ws))

StopWords == {<<"a">>}

Remove(text) == Join(SelectSeq(Words(text), LAMBDA w : w \notin StopWords))

StemWord(w) == IF Len(w) > 1 /\ w[Len(w)] = "b" THEN SubSeq(w, 1, Len(w) - 1) ELSE w

Stem(text) == LET ws == Words(text) IN Join([i \in 1..Len(ws) |-> StemWord(ws[i])])

Vocabulary == <<(<<"a">>), (<<"b">>), (<<"a", "a">>), (<<"b", "a">>)>>

Transform(text) ==
    LET ws == Words(text)
    IN  [j \in 1..Len(Vocabulary) |->
            IF \E i \in 1..Len(ws) : ws[i] = Vocabulary[j] THEN 1 ELSE 0]

Truthy(obj) == obj.kind # "None"

Call(fn, arg) == [fn |-> fn, arg |-> arg]

preprocess_text_stem_first(txt, sw, st) ==
    LET t1 == normalize(txt)
        c1 == IF Truthy(st) THEN <<Call("stemmer.stem", t1)>> ELSE <<>>
        t2 == IF Truthy(st) THEN Stem(t1) ELSE t1
        c2 == IF Truthy(sw) THEN <<Call("stopword_remover.remove", t2)>> ELSE <<>>
        t3 == IF Truthy(sw) THEN Remove(t2) ELSE t2
    IN  [text |-> t3, calls |-> c1 \o c2]

preprocess_text(txt, sw, st) ==
    LET t1 == normalize(txt)
        c1 == IF Truthy(sw) THEN <<Call("stopword_remover.remove", t1)>> ELSE <<>>
        t2 == IF Truthy(sw) THEN Remove(t1) ELSE t1
        c2 == IF Truthy(st) THEN <<Call("stemmer.stem", t2)>> ELSE <<>>
        t3 == IF Truthy(st) THEN Stem(t2) ELSE t2
    IN  [text |-> t3, calls |-> c1 \o c2]

(* ---------------------------- get_confidence_badge --------------------- *)

get_confidence_badge_inclusive(prob) ==
    IF prob >= 80 THEN <<"Tinggi", "success">>
    ELSE IF prob >= 60 THEN <<"Sedang", "warning">>
    ELSE <<"Rendah", "error">>

get_confidence_badge(prob) ==
    IF prob > 80 THEN <<"Tinggi", "success">>
    ELSE IF prob > 60 THEN <<"Sedang", "warning">>
    ELSE <<"Rendah", "error">>

ProbUnit == 100

ProbGrid == {0, 19, 20, 40, 50, 81}

Max2(pair) == IF pair[1] >= pair[2] THEN pair[1] ELSE pair[2]

MaxProb(prob) == (Max2(prob) * 100) \div ProbUnit

(* ---------------------------- objects ---------------------------------- *)

Artifacts == <<"model_bernoulli_nb.pkl", "model_linear_svm.pkl",
               "model_ensemble_voting.pkl", "vectorizer_tfidf.pkl",
               "preprocessing_tools.pkl">>

FileStates == {"ok", "missing", "corrupt"}

None == [kind |-> "None"]

Obj(k) == [kind |-> k]

Labels == {"positive", "negative"}

Causes == {"ValueError", "AttributeError"}

NoException == [by |-> "none", cause |-> "none"]

VARIABLES
    files,            \* state of the five .pkl files on disk
    toolsArtifact,    \* the mapping pickled in preprocessing_tools.pkl
    cache,            \* st.cache_resource entry of load_model_objects
    loadCount,        \* number of times the loader body has run
    loadErr,          \* st.error emitted by the loader body
    rerun,            \* TRUE when this run found the loader's result cached
    model_bnb, model_svm, model_ensemble, vectorizer, tools,
    pc,               \* position of the script run
    input_text, predict_btn, show_comparison, show_details,
    stopword_remover, stemmer, processed_text, vec,
    pred_ensemble, prob_ensemble, pred_bnb, pred_svm,
    calls,            \* calls made on loaded objects during this run
    e,                \* exception caught at line 191
    page,             \* elements rendered by this run
    outcome,          \* how the run ended
    trail             \* successive results of the normalization step

envVars == <<files, toolsArtifact>>

loaderVars == <<cache, loadCount, loadErr>>

bundleVars == <<model_bnb, model_svm, model_ensemble, vectorizer, tools>>

widgetVars == <<input_text, predict_btn, show_comparison, show_details>>

localVars == <<stopword_remover, stemmer, processed_text, vec,
               pred_ensemble, prob_ensemble, pred_bnb, pred_svm>>

vars == <<envVars, loaderVars, rerun, bundleVars, pc, widgetVars, localVars,
          calls, e, page, outcome, trail>>

BlankPage == [warning |-> "none", sentiment |-> "none", badge |-> "none",
              conf |-> -1, progress |-> <<>>, bnb |-> "none", svm |-> "none",
              details |-> <<>>, error |-> <<>>]

RequestBlank ==
    /\ input_text = <<>>
    /\ predict_btn = FALSE
    /\ show_comparison = TRUE
    /\ show_details = FALSE
    /\ stopword_remover = None
    /\ stemmer = None
    /\ processed_text = <<>>
    /\ vec = <<>>
    /\ pred_ensemble = "none"
    /\ prob_ensemble = <<>>
    /\ pred_bnb = "none"
    /\ pred_svm = "none"
    /\ calls = <<>>
    /\ e = NoException
    /\ page = BlankPage
    /\ outcome = "none"

ResetRequest ==
    /\ input_text' = <<>>
    /\ predict_btn' = FALSE
    /\ show_comparison' = TRUE
    /\ show_details' = FALSE
    /\ stopword_remover' = None
    /\ stemmer' = None
    /\ processed_text' = <<>>
    /\ vec' = <<>>
    /\ pred_ensemble' = "none"
    /\ prob_ensemble' = <<>>
    /\ pred_bnb' = "none"
    /\ pred_svm' = "none"
    /\ calls' = <<>>
    /\ e' = NoException
    /\ page' = BlankPage
    /\ outcome' = "none"

ToolsDicts == {[kind |-> "dict", stopword |-> sw, stemmer |-> st] :
                  sw \in {Obj("StopWordRemover"), None},
                  st \in {Obj("Stemmer"), None}}

ProcessStart ==
    /\ cache = <<>>
    /\ loadCount = 0
    /\ loadErr = "none"
    /\ rerun = FALSE
    /\ model_bnb = None
    /\ model_svm = None
    /\ model_ensemble = None
    /\ vectorizer = None
    /\ tools = None
    /\ pc = "idle"
    /\ RequestBlank

Init ==
    /\ files \in [1..5 -> FileStates]
    /\ toolsArtifact \in ToolsDicts
    /\ ProcessStart
    /\ trail = <<>>

(* ---------------------------- load_model_objects ----------------------- *)

FirstFailure(f) ==
    IF \A i \in 1..5 : f[i] = "ok" THEN 0
    ELSE CHOOSE i \in 1..5 : f[i] # "ok" /\ \A j \in 1..(i - 1) : f[j] = "ok"

LoadResultPartial(f, toolsObj) ==
    LET loaded == <<Obj("BernoulliNB"), Obj("LinearSVM"), Obj("VotingClassifier"),
                    Obj("TfidfVectorizer"), toolsObj>>
    IN  [i \in 1..5 |-> IF FirstFailure(f) = 0 \/ i < FirstFailure(f)
                         THEN loaded[i] ELSE None]

LoadResult(f, toolsObj) ==
    IF FirstFailure(f) = 0
    THEN <<Obj("BernoulliNB"), Obj("LinearSVM"), Obj("VotingClassifier"),
           Obj("TfidfVectorizer"), toolsObj>>
    ELSE <<None, None, None, None, None>>

LoadMessage(f) ==
    IF FirstFailure(f) = 0 THEN "none"
    ELSE IF f[FirstFailure(f)] = "missing" THEN "file_not_found"
    ELSE "load_error"

CacheNeverHit == FALSE

CacheHit == cache # <<>>

AssignBundle(result) ==
    /\ model_bnb' = result[1]
    /\ model_svm' = result[2]
    /\ model_ensemble' = result[3]
    /\ vectorizer' = result[4]
    /\ tools' = result[5]

StartRun ==
    /\ pc = "idle"
    /\ rerun' = CacheHit
    /\ ResetRequest
    /\ pc' = "check"
    /\ UNCHANGED <<envVars, trail>>

LoadModelObjectsBody ==
    /\ ~CacheHit
    /\ loadCount < MaxLoads
    /\ StartRun
    /\ LET result == LoadResult(files, toolsArtifact)
       IN  /\ cache' = <<result>>
           /\ AssignBundle(result)
    /\ loadCount' = loadCount + 1
    /\ loadErr' = LoadMessage(files)

LoadModelObjectsCached ==
    /\ CacheHit
    /\ StartRun
    /\ AssignBundle(cache[1])
    /\ UNCHANGED loaderVars

(* ---------------------------- script body ------------------------------ *)

models_loaded ==
    \A obj \in {model_bnb, model_svm, model_ensemble, vectorizer, tools} : Truthy(obj)

Unavailable ==
    /\ pc = "check"
    /\ ~models_loaded
    /\ page' = [page EXCEPT !.warning = "unavailable"]
    /\ outcome' = "unavailable"
    /\ pc' = "idle"
    /\ UNCHANGED <<envVars, loaderVars, rerun, bundleVars, widgetVars, localVars,
                   calls, e, trail>>

ReadWidgets(txt, btn, cmp, det) ==
    /\ input_text' = txt
    /\ predict_btn' = btn
    /\ show_comparison' = cmp
    /\ show_details' = det

NoAnalyze ==
    /\ pc = "check"
    /\ models_loaded
    /\ \E txt \in SeqsUpTo(InputChars, MaxInputLen), cmp \in BOOLEAN, det \in BOOLEAN :
          ReadWidgets(txt, FALSE, cmp, det)
    /\ outcome' = "no_request"
    /\ pc' = "idle"
    /\ UNCHANGED <<envVars, loaderVars, rerun, bundleVars, localVars,
                   calls, e, page, trail>>

EmptyInput ==
    /\ pc = "check"
    /\ models_loaded
    /\ \E txt \in SeqsUpTo(InputChars, MaxInputLen), cmp \in BOOLEAN, det \in BOOLEAN :
          /\ Strip(txt) = <<>>
          /\ ReadWidgets(txt, TRUE, cmp, det)
    /\ page' = [page EXCEPT !.warning = "empty_input"]
    /\ outcome' = "empty_input"
    /\ pc' = "idle"
    /\ UNCHANGED <<envVars, loaderVars, rerun, bundleVars, localVars,
                   calls, e, trail>>

StartAnalysis ==
    /\ pc = "check"
    /\ models_loaded
    /\ \E txt \in SeqsUpTo(InputChars, MaxInputLen), cmp \in BOOLEAN, det \in BOOLEAN :
          /\ Strip(txt) # <<>>
          /\ ReadWidgets(txt, TRUE, cmp, det)
    /\ pc' = "preprocess"
    /\ UNCHANGED <<envVars, loaderVars, rerun, bundleVars, localVars,
                   calls, e, page, outcome, trail>>

Preprocess ==
    /\ pc = "preprocess"
    /\ stopword_remover' = tools.stopword
    /\ stemmer' = tools.stemmer
    /\ LET r == preprocess_text(input_text, tools.stopword, tools.stemmer)
       IN  /\ processed_text' = r.text
           /\ calls' = calls \o r.calls
    /\ pc' = "transform"
    /\ UNCHANGED <<envVars, loaderVars, rerun, bundleVars, widgetVars, vec,
                   pred_ensemble, prob_ensemble, pred_bnb, pred_svm,
                   e, page, outcome, trail>>

VectorizerTransform ==
    /\ pc = "transform"
    /\ vec' = Transform(processed_text)
    /\ calls' = Append(calls, Call("vectorizer.transform", processed_text))
    /\ pc' = "ens_predict"
    /\ UNCHANGED <<envVars, loaderVars, rerun, bundleVars, widgetVars,
                   stopword_remover, stemmer, processed_text,
                   pred_ensemble, prob_ensemble, pred_bnb, pred_svm,
                   e, page, outcome, trail>>

CalleeCopyPaste(p) ==
    CASE p = "transform" -> "vectorizer.transform"
      [] p = "ens_predict" -> "model_bnb.predict"
      [] p = "ens_proba" -> "model_ensemble.predict_proba"
      [] p = "bnb" -> "model_bnb.predict"
      [] p = "svm" -> "model_svm.predict"

Callee(p) ==
    CASE p = "transform" -> "vectorizer.transform"
      [] p = "ens_predict" -> "model_ensemble.predict"
      [] p = "ens_proba" -> "model_ensemble.predict_proba"
      [] p = "bnb" -> "model_bnb.predict"
      [] p = "svm" -> "model_svm.predict"

EnsemblePredict ==
    /\ pc = "ens_predict"
    /\ \E label \in Labels : pred_ensemble' = label
    /\ calls' = Append(calls, Call(Callee(pc), vec))
    /\ pc' = "ens_proba"
    /\ UNCHANGED <<envVars, loaderVars, rerun, bundleVars, widgetVars,
                   stopword_remover, stemmer, processed_text, vec,
                   prob_ensemble, pred_bnb, pred_svm, e, page, outcome, trail>>

SentimentAlert(pred) == IF pred = "positive" THEN "POSITIF" ELSE "NEGATIF"

ComparisonAlert(pred) == IF pred = "positive" THEN "Positif" ELSE "Negatif"

AlwaysCompare == TRUE

WantsComparison == show_comparison

ShowDetails(pg) ==
    IF show_details
    THEN [pg EXCEPT !.details = <<input_text, processed_text>>]
    ELSE pg

ShowEnsemble(pg, pred, prob) ==
    LET max_prob == MaxProb(prob)
    IN  [pg EXCEPT !.sentiment = SentimentAlert(pred),
                   !.badge = get_confidence_badge(max_prob)[1],
                   !.conf = max_prob,
                   !.progress = <<prob[2], prob[1]>>]

EnsemblePredictProba ==
    /\ pc = "ens_proba"
    /\ \E pn \in ProbGrid : prob_ensemble' = <<pn, ProbUnit - pn>>
    /\ calls' = Append(calls, Call(Callee(pc), vec))
    /\ IF WantsComparison
       THEN /\ page' = ShowEnsemble(page, pred_ensemble, prob_ensemble')
            /\ pc' = "bnb"
            /\ UNCHANGED outcome
       ELSE /\ page' = ShowDetails(ShowEnsemble(page, pred_ensemble, prob_ensemble'))
            /\ pc' = "idle"
            /\ outcome' = "report"
    /\ UNCHANGED <<envVars, loaderVars, rerun, bundleVars, widgetVars,
                   stopword_remover, stemmer, processed_text, vec,
                   pred_ensemble, pred_bnb, pred_svm, e, trail>>

BnbPredict ==
    /\ pc = "bnb"
    /\ \E label \in Labels : pred_bnb' = label
    /\ calls' = Append(calls, Call(Callee(pc), vec))
    /\ pc' = "svm"
    /\ UNCHANGED <<envVars, loaderVars, rerun, bundleVars, widgetVars,
                   stopword_remover, stemmer, processed_text, vec,
                   pred_ensemble, prob_ensemble, pred_svm, e, page, outcome, trail>>

ShowComparison(pg, bnb, svm) ==
    [pg EXCEPT !.bnb = ComparisonAlert(bnb), !.svm = ComparisonAlert(svm)]

SvmPredict ==
    /\ pc = "svm"
    /\ \E label \in Labels :
          /\ pred_svm' = label
          /\ page' = ShowDetails(ShowComparison(page, pred_bnb, label))
    /\ calls' = Append(calls, Call(Callee(pc), vec))
    /\ outcome' = "report"
    /\ pc' = "idle"
    /\ UNCHANGED <<envVars, loaderVars, rerun, bundleVars, widgetVars,
                   stopword_remover, stemmer, processed_text, vec,
                   pred_ensemble, prob_ensemble, pred_bnb, e, trail>>

(* ---------------------------- except Exception as e -------------------- *)

CallSites == {"transform", "ens_predict", "ens_proba", "bnb", "svm"}

ErrorMessage(exc) == <<"Terjadi kesalahan saat proses prediksi: ", exc.cause>>

Caught(exc) ==
    /\ e' = exc
    /\ page' = [page EXCEPT !.error = ErrorMessage(exc)]
    /\ outcome' = "error"
    /\ pc' = "idle"

PreprocessRaise ==
    /\ pc = "preprocess"
    /\ LET r == preprocess_text(input_text, tools.stopword, tools.stemmer)
       IN  \E k \in 1..Len(r.calls), cause \in Causes :
              /\ calls' = calls \o SubSeq(r.calls, 1, k)
              /\ Caught([by |-> r.calls[k].fn, cause |-> cause])
    /\ stopword_remover' = tools.stopword
    /\ stemmer' = tools.stemmer
    /\ UNCHANGED <<envVars, loaderVars, rerun, bundleVars, widgetVars,
                   processed_text, vec, pred_ensemble, prob_ensemble,
                   pred_bnb, pred_svm, trail>>

Raise ==
    /\ pc \in CallSites
    /\ calls' = Append(calls, Call(Callee(pc),
                                   IF pc = "transform" THEN processed_text ELSE vec))
    /\ \E cause \in Causes : Caught([by |-> Callee(pc), cause |-> cause])
    /\ UNCHANGED <<envVars, loaderVars, rerun, bundleVars, widgetVars,
                   localVars, trail>>

Next ==
    \/ LoadModelObjectsBody
    \/ LoadModelObjectsCached
    \/ Unavailable
    \/ NoAnalyze
    \/ EmptyInput
    \/ StartAnalysis
    \/ Preprocess
    \/ PreprocessRaise
    \/ VectorizerTransform
    \/ EnsemblePredict
    \/ EnsemblePredictProba
    \/ BnbPredict
    \/ SvmPredict
    \/ Raise

Spec == Init /\ [][Next]_vars

(* ---------------------------- normalization alone ---------------------- *)

InitNormalize ==
    /\ files = [i \in 1..5 |-> "ok"]
    /\ toolsArtifact = [kind |-> "dict", stopword |-> None, stemmer |-> None]
    /\ ProcessStart
    /\ trail \in {<<s>> : s \in SeqsUpTo(Alphabet, MaxLen)}

ApplyNormalize ==
    /\ Len(trail) \in 1..2
    /\ trail' = Append(trail, preprocess_text(trail[Len(trail)], None, None).text)
    /\ UNCHANGED <<envVars, loaderVars, rerun, bundleVars, pc, widgetVars,
                   localVars, calls, e, page, outcome>>

NextNormalize == ApplyNormalize

SpecNormalize == InitNormalize /\ [][NextNormalize]_vars

(* ---------------------------- properties ---------------------------- *)

BaseFns == {"model_bnb.predict", "model_bnb.predict_proba",
            "model_svm.predict", "model_svm.predict_proba"}

EnsembleFns == {"model_ensemble.predict", "model_ensemble.predict_proba"}

ToolFns == {"stopword_remover.remove", "stemmer.stem"}

Called(fn) == \E i \in 1..Len(calls) : calls[i].fn = fn

CalledWith(fn, arg) == \E i \in 1..Len(calls) : calls[i].fn = fn /\ calls[i].arg = arg

Before(fn1, fn2) ==
    \A j \in 1..Len(calls) :
        calls[j].fn = fn2 => \E i \in 1..(j - 1) : calls[i].fn = fn1

AllWhitespace(t) == \A i \in 1..Len(t) : t[i] \in {" ", "\t"}

\* C1: an analyze request whose input is empty or only whitespace ends in the
\* empty-input warning (not the pipeline error) and invokes no tool, vectorizer
\* or classifier, whatever the comparison and details flags are.
C1_EmptyInputNoInvocation ==
    (predict_btn /\ AllWhitespace(input_text)) =>
        /\ pc = "idle"
        /\ outcome = "empty_input"
        /\ page.warning = "empty_input"
        /\ page.error = <<>>
        /\ page.sentiment = "none"
        /\ e = NoException
        /\ calls = <<>>

C1_Witness ==
    /\ outcome = "empty_input"
    /\ input_text = <<" ", "\t">>
    /\ ~show_comparison
    /\ show_details

\* C2: with the comparison flag off, neither base classifier is invoked on any
\* path of the request, error paths included; a base classifier call implies
\* the flag is on.
C2_NoBaseWithoutComparison ==
    /\ ~show_comparison =>
          /\ \A i \in 1..Len(calls) : calls[i].fn \notin BaseFns
          /\ pred_bnb = "none" /\ pred_svm = "none"
          /\ page.bnb = "none" /\ page.svm = "none"
          /\ e.by \notin BaseFns
    /\ (\E i \in 1..Len(calls) : calls[i].fn \in BaseFns) => show_comparison

C2_Witness ==
    /\ ~show_comparison
    /\ outcome = "report"
    /\ Called("model_ensemble.predict_proba")

\* C3: when any of the five artifacts is missing or corrupt, the loader yields
\* five empty slots (never a partial bundle) and every later run ends
\* unavailable without calling the vectorizer or any classifier.
C3_FailedLoadUnavailable ==
    ((\E i \in 1..5 : files[i] # "ok") /\ loadCount >= 1) =>
        /\ cache = << <<None, None, None, None, None>> >>
        /\ \A obj \in {model_bnb, model_svm, model_ensemble, vectorizer, tools} :
              obj = None
        /\ loadErr # "none"
        /\ calls = <<>>
        /\ pc \in {"idle", "check"}
        /\ pc = "idle" => outcome = "unavailable" /\ page.warning = "unavailable"

C3_Witness ==
    /\ files = <<"ok", "ok", "ok", "corrupt", "ok">>
    /\ loadCount = 1
    /\ rerun
    /\ outcome = "unavailable"

ModelOf(fn) ==
    CASE fn \in EnsembleFns -> "model_ensemble"
      [] fn \in {"model_bnb.predict", "model_bnb.predict_proba"} -> "model_bnb"
      [] fn \in {"model_svm.predict", "model_svm.predict_proba"} -> "model_svm"
      [] OTHER -> "none"

\* C4: when a classifier raises, the request ends in one prediction error that
\* carries the cause and names the offending model, nothing is reported for
\* the failed model, and every result already computed for another model is
\* reported.
C4_PredictionErrorIdentifiesModel ==
    (outcome = "error" /\ e.by \in (EnsembleFns \cup BaseFns)) =>
        /\ \E i \in 1..Len(page.error) : page.error[i] = e.cause
        /\ \E i \in 1..Len(page.error) : page.error[i] = ModelOf(e.by)
        /\ ModelOf(e.by) = "model_ensemble" => page.sentiment = "none" /\ page.badge = "none"
        /\ ModelOf(e.by) = "model_bnb" => page.bnb = "none"
        /\ ModelOf(e.by) = "model_svm" => page.svm = "none"
        /\ (ModelOf(e.by) # "model_ensemble" /\ pred_ensemble # "none")
              => page.sentiment = SentimentAlert(pred_ensemble)
        /\ (ModelOf(e.by) # "model_bnb" /\ pred_bnb # "none")
              => page.bnb = ComparisonAlert(pred_bnb)
        /\ (ModelOf(e.by) # "model_svm" /\ pred_svm # "none")
              => page.svm = ComparisonAlert(pred_svm)

BadgeTable(p, badge) ==
    /\ badge \in {"Tinggi", "Sedang", "Rendah"}
    /\ badge = "Tinggi" <=> p > 80
    /\ badge = "Sedang" <=> (60 < p /\ p <= 80)
    /\ badge = "Rendah" <=> p <= 60

BadgeTotal ==
    /\ \A p \in 0..100 : BadgeTable(p, get_confidence_badge(p)[1])
    /\ get_confidence_badge(81)[1] = "Tinggi"
    /\ get_confidence_badge(80)[1] = "Sedang"
    /\ get_confidence_badge(60)[1] = "Rendah"
    /\ get_confidence_badge(100)[1] = "Tinggi"
    /\ get_confidence_badge(0)[1] = "Rendah"

\* C5: get_confidence_badge is total over 0..100 with High iff p > 80, Medium
\* iff 60 < p <= 80, Low iff p <= 60, and the badge on the page is the badge
\* of max(p_negative, p_positive) * 100 of the ensemble's probability pair.
C5_BadgeThresholds ==
    /\ BadgeTotal
    /\ page.badge # "none" =>
          LET pn == prob_ensemble[1]
              pp == prob_ensemble[2]
              percent == ((IF pn >= pp THEN pn ELSE pp) * 100) \div ProbUnit
          IN  /\ page.conf = percent
              /\ BadgeTable(percent, page.badge)

C5_Witness ==
    /\ outcome = "report"
    /\ prob_ensemble = <<20, 80>>
    /\ page.badge = "Sedang"

RECURSIVE MatchFrom(_, _, _)
MatchFrom(s, i, q) ==
    IF i > Len(s) THEN q \in {0, 2}
    ELSE IF IsLowerAscii(s[i]) THEN MatchFrom(s, i + 1, IF q = 0 THEN 0 ELSE 2)
    ELSE IF s[i] = " " /\ q \in {0, 2} THEN MatchFrom(s, i + 1, 1)
    ELSE FALSE

MatchesPattern(s) == MatchFrom(s, 1, 0)

LetterPositions(s) ==
    SelectSeq([i \in 1..Len(s) |-> i],
              LAMBDA i : s[i] \in {"a", "b", "A", "B"})

RunsBecomeOneSpace(src, out) ==
    LET ip == LetterPositions(src)
        op == LetterPositions(out)
    IN  /\ Len(op) = Len(ip)
        /\ \A k \in 1..Len(ip) : out[op[k]] = LowerChar(src[ip[k]])
        /\ \A k \in 1..(Len(ip) - 1) :
              op[k + 1] - op[k] = IF ip[k + 1] = ip[k] + 1 THEN 1 ELSE 2
        /\ Len(ip) = 0 => out = <<>>
        /\ Len(ip) > 0 => op[1] = 1 /\ op[Len(op)] = Len(out)

C7_StopwordBeforeStemming ==
    models_loaded =>
        LET n == normalize(input_text)
            sw == Truthy(tools.stopword)
            st == Truthy(tools.stemmer)
            removed == IF sw THEN Remove(n) ELSE n
            expCalls == (IF sw THEN <<Call("stopword_remover.remove", n)>> ELSE <<>>)
                        \o (IF st THEN <<Call("stemmer.stem", removed)>> ELSE <<>>)
            expText == IF st THEN Stem(removed) ELSE removed
            toolCalls == SelectSeq(calls, LAMBDA c : c.fn \in ToolFns)
            reduced == \/ pc \in CallSites
                       \/ pc = "idle" /\ outcome = "report"
                       \/ pc = "idle" /\ outcome = "error" /\ e.by \notin ToolFns
        IN  /\ Len(toolCalls) <= Len(expCalls)
            /\ toolCalls = SubSeq(expCalls, 1, Len(toolCalls))
            /\ reduced => toolCalls = expCalls /\ processed_text = expText
            /\ outcome = "error" <=> e # NoException
            /\ outcome = "error" =>
                  /\ calls # <<>>
                  /\ e.by = calls[Len(calls)].fn
                  /\ e.by = "stopword_remover.remove" => sw
                  /\ e.by = "stemmer.stem" => st

C7_Witness ==
    /\ outcome = "report"
    /\ Truthy(tools.stopword) /\ Truthy(tools.stemmer)
    /\ input_text = <<"a", "B">>
    /\ processed_text = <<"a">>

VectorizationSucceeded ==
    Called("vectorizer.transform") /\ e.by # "vectorizer.transform"

EnsembleOrder ==
    /\ Before("vectorizer.transform", "model_ensemble.predict")
    /\ Before("model_ensemble.predict", "model_ensemble.predict_proba")
    /\ \A fn \in BaseFns :
          /\ Before("model_ensemble.predict", fn)
          /\ Before("model_ensemble.predict_proba", fn)

\* C8 as stated: once vectorization succeeded, the ensemble's predict and
\* predict_proba are both invoked on the feature vector, whatever the
\* comparison flag, after vectorization and before any base classifier.
C8_EnsembleAlwaysComputed ==
    /\ (pc = "idle" /\ VectorizationSucceeded) =>
          /\ CalledWith("model_ensemble.predict", vec)
          /\ CalledWith("model_ensemble.predict_proba", vec)
    /\ EnsembleOrder

\* C8 amended: once vectorization succeeded, the ensemble's predict is invoked
\* on the feature vector whatever the comparison flag, and its predict_proba
\* is invoked on it whenever predict returned; both come after vectorization
\* and before any base classifier.
C8_EnsemblePredictAlwaysInvoked ==
    /\ (pc = "idle" /\ VectorizationSucceeded) =>
          /\ vec = Transform(processed_text)
          /\ CalledWith("model_ensemble.predict", vec)
          /\ e.by # "model_ensemble.predict" =>
                CalledWith("model_ensemble.predict_proba", vec)
    /\ EnsembleOrder

C8_Witness ==
    /\ outcome = "report"
    /\ ~show_comparison
    /\ CalledWith("model_ensemble.predict", vec)
    /\ CalledWith("model_ensemble.predict_proba", vec)

OnlyLettersAndSpaces(s) ==
    \A i \in 1..Len(s) : s[i] \in {"a", "b", "A", "B", "é", " "}

\* C9: for strings of letters and spaces only, normalizing twice gives the
\* same result as normalizing once.
C9_NormalizeIdempotent ==
    (Len(trail) = 3 /\ OnlyLettersAndSpaces(trail[1])) => trail[3] = trail[2]

C9_Witness ==
    /\ Len(trail) = 3
    /\ trail[1] = <<" ", "A", "b">>
    /\ trail[2] = <<"a", "b">>
    /\ trail[3] = <<"a", "b">>

\* C10: across script reruns the loader body runs at most once, also when
\* that load failed, and once loaded the cached bundle and the module-level
\* references to it are the same before and after every step of every run.
C10_LoadedOnceNeverMutated ==
    [][/\ loadCount' <= 1
       /\ loadCount >= 1 =>
             /\ loadCount' = loadCount
             /\ cache' = cache
             /\ bundleVars' = bundleVars
       /\ pc # "idle" => bundleVars' = bundleVars]_vars

C10_Witness ==
    /\ loadCount = 1
    /\ rerun
    /\ outcome = "report"
    /\ tools = toolsArtifact

TypeOK ==
    /\ pc \in {"idle", "check", "preprocess"} \cup CallSites
    /\ loadCount \in 0..MaxLoads
    /\ outcome \in {"none", "unavailable", "no_request", "empty_input", "report", "error"}

====
